---- MODULE Spec2Model ----
(***************************************************************************)
(* Order -> kitchen-ticket fan-out and status aggregation of the           *)
(* restaurant_pos application.  Documents are records, doctypes are        *)
(* sequences indexed by document name, and every whitelisted endpoint or   *)
(* document method is one action that includes the document hooks          *)
(* (validate / on_update) its save() and insert() calls run.               *)
(***************************************************************************)
EXTENDS Integers, Sequences, FiniteSets, TLC

VARIABLES
    orders,     \* Restaurant Order documents, indexed by name
    kots,       \* Kitchen Order documents (tickets), indexed by name
    sessions,   \* Table Session documents, indexed by name
    tables,     \* Restaurant Table documents, by qr code
    now,        \* the value now_datetime() returns
    response,   \* what the last request returned
    requests,   \* the update_order_status requests served step by step, by worker
    validation, \* the last validate_order_items call: its argument and what it returned
    published,  \* the realtime events the last request published
    settings    \* the Restaurant Settings singleton

vars ==
    <<orders, kots, sessions, tables, now, response, requests, validation, published,
      settings>>

-----------------------------------------------------------------------------
(* Bounds of the model *)

MaxOrders == 1
MaxReqItems == 2
MaxLines == 2
MaxClock == 2
MaxWorkers == 2
MaxSessions == 3

-----------------------------------------------------------------------------
(* Values *)

NoTime == <<>>
Stamp(t) == <<t>>
NoRef == <<>>
Ref(i) == <<i>>
NoItem == 0
UnknownOrder == 0

(* the list without "Paid" and "Cancelled" *)
StickyStatusesShort == {"Served", "Completed"}
StickyStatuses == {"Served", "Completed", "Cancelled", "Paid"}
(* the list without "Paid" *)
ClosedStatusesShort == {"Completed", "Cancelled"}
ClosedStatuses == {"Completed", "Cancelled", "Paid"}
OpenSessionStatuses == {"Active", "Ordering"}

(* The statuses the kitchen display sends to update_order_status *)
KotStatusInputs == {"Preparing", "Ready", "Cancelled"}
ItemStatusInputs == {"Preparing", "Ready"}

DefaultStation == "Main Kitchen"

(* The Restaurant Settings singleton as the restaurant configures it, and
   the singletons with a percentage left unset (0). *)
Settings == [service_charge_percent |-> 10, vat_percent |-> 15]
AnySettings == [service_charge_percent : {0, 10}, vat_percent : {0, 15}]

(* The Menu Item documents of the catalog: the fields validate_order_items
   reads, plus whether the item's default BOM is in stock. *)
MenuNames == {"Burger", "Juice", "Soup", "Old", "Steak", "Special"}
MissingItem == "Ghost"
Menu ==
    [m \in MenuNames |->
        CASE m = "Burger" -> [price |-> 10000, enabled |-> TRUE, is_available |-> TRUE,
                              kitchen_station |-> "Grill", in_stock |-> TRUE]
          [] m = "Juice"  -> [price |-> 5000, enabled |-> TRUE, is_available |-> TRUE,
                              kitchen_station |-> "Bar", in_stock |-> TRUE]
          [] m = "Soup"   -> [price |-> 10000, enabled |-> TRUE, is_available |-> TRUE,
                              kitchen_station |-> "", in_stock |-> TRUE]
          [] m = "Old"    -> [price |-> 10000, enabled |-> FALSE, is_available |-> TRUE,
                              kitchen_station |-> "Grill", in_stock |-> TRUE]
          [] m = "Steak"  -> [price |-> 20000, enabled |-> TRUE, is_available |-> TRUE,
                              kitchen_station |-> "Grill", in_stock |-> FALSE]
          [] m = "Special" -> [price |-> 10000, enabled |-> TRUE, is_available |-> FALSE,
                              kitchen_station |-> "Grill", in_stock |-> TRUE]]

TableCodes == {"T1"}
BadTableCode == "TX"

(* Requested entries: the ones that validate, and the ones that are dropped
   (qty < 1) or refused (missing, disabled, out of stock). *)
Modifier(price) == [additional_price |-> price]
EntryWith(m, q, mods) == [item |-> m, qty |-> q, modifiers |-> mods]
Entry(m, q) == EntryWith(m, q, <<>>)
GoodEntries == {Entry(m, 1) : m \in {"Burger", "Juice", "Soup"}}
OddEntries == {Entry("Burger", 0), Entry(MissingItem, 0), Entry(MissingItem, 1),
               Entry("Old", 1), Entry("Steak", 1)}
GoodRequests == UNION {[1..n -> GoodEntries] : n \in 0..MaxReqItems}
OddRequests ==
    UNION {{<<e>>, <<Entry("Burger", 1), e>>} : e \in OddEntries}
Requests == GoodRequests \cup OddRequests

-----------------------------------------------------------------------------
(* Sequence helpers *)

RECURSIVE SumSeq(_)
SumSeq(s) == IF s = <<>> THEN 0 ELSE Head(s) + SumSeq(Tail(s))

RECURSIVE Distinct(_)
(* the elements of s without repetition, in order of first appearance:
   the key order of the station_items dict *)
Distinct(s) ==
    IF s = <<>> THEN <<>>
    ELSE LET rest == Distinct(SelectSeq(Tail(s), LAMBDA x : x /= Head(s)))
         IN  <<Head(s)>> \o rest

-----------------------------------------------------------------------------
(* Order validation and totals *)

CheckItemAvailability(m) == Menu[m].in_stock

(* the modifiers' prices are left out of the unit price *)
ValidatedLineBasePrice(e) ==
    LET mi == Menu[e.item]
    IN  [menu_item |-> e.item, qty |-> e.qty, rate |-> mi.price,
         total |-> mi.price * e.qty, kitchen_station |-> mi.kitchen_station]

ValidatedLine(e) ==
    LET mi == Menu[e.item]
        modifier_price == SumSeq([j \in DOMAIN e.modifiers |-> e.modifiers[j].additional_price])
        unit_price == mi.price + modifier_price
    IN  [menu_item |-> e.item, qty |-> e.qty, rate |-> unit_price,
         total |-> unit_price * e.qty, kitchen_station |-> mi.kitchen_station]

RECURSIVE ValidateOrderItemsLenient(_)
(* refused entries are dropped without an error *)
ValidateOrderItemsLenient(items) ==
    IF items = <<>> THEN <<(<<>>), (<<>>)>>
    ELSE LET e == Head(items)
             rest == ValidateOrderItemsLenient(Tail(items))
         IN  IF e.qty < 1 THEN rest
             ELSE IF e.item \notin MenuNames THEN rest
             ELSE IF ~Menu[e.item].enabled THEN rest
             ELSE IF ~CheckItemAvailability(e.item) THEN rest
             ELSE <<(<<ValidatedLine(e)>>) \o rest[1], rest[2]>>

RECURSIVE ValidateOrderItemsAnyQty(_)
(* entries of quantity below 1 are validated like the others *)
ValidateOrderItemsAnyQty(items) ==
    IF items = <<>> THEN <<(<<>>), (<<>>)>>
    ELSE LET e == Head(items)
             rest == ValidateOrderItemsAnyQty(Tail(items))
         IN  IF e.item \notin MenuNames
                  THEN <<rest[1], <<"Item not found">> \o rest[2]>>
             ELSE IF ~Menu[e.item].enabled
                  THEN <<rest[1], <<"Item not available">> \o rest[2]>>
             ELSE IF ~CheckItemAvailability(e.item)
                  THEN <<rest[1], <<"Item out of stock">> \o rest[2]>>
             ELSE <<(<<ValidatedLine(e)>>) \o rest[1], rest[2]>>

RECURSIVE ValidateOrderItems(_)
(* <<validated, errors>> *)
ValidateOrderItems(items) ==
    IF items = <<>> THEN <<(<<>>), (<<>>)>>
    ELSE LET e == Head(items)
             rest == ValidateOrderItems(Tail(items))
         IN  IF e.qty < 1 THEN rest
             ELSE IF e.item \notin MenuNames
                  THEN <<rest[1], <<"Item not found">> \o rest[2]>>
             ELSE IF ~Menu[e.item].enabled
                  THEN <<rest[1], <<"Item not available">> \o rest[2]>>
             ELSE IF ~CheckItemAvailability(e.item)
                  THEN <<rest[1], <<"Item out of stock">> \o rest[2]>>
             ELSE <<(<<ValidatedLine(e)>>) \o rest[1], rest[2]>>

OrderLine(v) ==
    [menu_item |-> v.menu_item, qty |-> v.qty, rate |-> v.rate, amount |-> v.total,
     kitchen_station |-> v.kitchen_station, status |-> "Pending"]

(* RestaurantOrder.validate: the totals every insert() and save() of an order
   recomputes.  No order line carries a tax_rate, so calculate_tax gives 0. *)
CalculateTotals(order) ==
    LET subtotal == SumSeq([i \in DOMAIN order.items |->
                               order.items[i].rate * order.items[i].qty])
        service_charge ==
            IF settings.service_charge_percent /= 0
            THEN (subtotal * settings.service_charge_percent) \div 100 ELSE 0
        tax_amount == 0
    IN  [order EXCEPT
            !.items = [i \in DOMAIN order.items |->
                          [order.items[i] EXCEPT
                              !.amount = order.items[i].rate * order.items[i].qty]],
            !.subtotal = subtotal,
            !.service_charge = service_charge,
            !.tax_amount = tax_amount,
            !.grand_total = subtotal + tax_amount + service_charge
                            + order.tip_amount - order.discount_amount]

-----------------------------------------------------------------------------
(* Order status reconciler *)

KotsOf(ks, o) == {k \in DOMAIN ks : ks[k].restaurant_order = o}

(* "any ticket Ready" in place of "all tickets Ready" *)
NewStatusAnyReady(statuses) ==
    IF \E s \in statuses : s = "Ready" THEN "Ready"
    ELSE IF \E s \in statuses : s = "Preparing" THEN "Preparing"
    ELSE IF \A s \in statuses : s = "New" THEN "Confirmed"
    ELSE "Preparing"

(* "any ticket New" in place of "all tickets New" *)
NewStatusAnyNew(statuses) ==
    IF \A s \in statuses : s = "Ready" THEN "Ready"
    ELSE IF \E s \in statuses : s = "Preparing" THEN "Preparing"
    ELSE IF \E s \in statuses : s = "New" THEN "Confirmed"
    ELSE "Preparing"

NewStatus(statuses) ==
    IF \A s \in statuses : s = "Ready" THEN "Ready"
    ELSE IF \E s \in statuses : s = "Preparing" THEN "Preparing"
    ELSE IF \A s \in statuses : s = "New" THEN "Confirmed"
    ELSE "Preparing"

(* RestaurantOrder.on_update -> update_table_status: every save of an order
   that carries a restaurant_table and is not Cancelled, Completed or Paid
   writes the order as the current order of that table *)
UpdateTableStatus(tbls, order, o) ==
    IF order.restaurant_table /= "" /\ order.status \notin ClosedStatuses
    THEN [tbls EXCEPT ![order.restaurant_table].current_order = Ref(o)]
    ELSE tbls

(* the tables after update_restaurant_order_status(order_name): the order is
   saved when it has tickets and its status is not sticky *)
ReconcilerTables(tbls, ords, ks, o) ==
    IF KotsOf(ks, o) /= {} /\ ords[o].status \notin StickyStatuses
    THEN UpdateTableStatus(tbls,
            [ords[o] EXCEPT !.status = NewStatus({ks[k].status : k \in KotsOf(ks, o)})], o)
    ELSE tbls

(* update_restaurant_order_status(order_name) on the documents ords, ks *)
UpdateRestaurantOrderStatus(ords, ks, o) ==
    LET statuses == {ks[k].status : k \in KotsOf(ks, o)}
    IN  IF KotsOf(ks, o) = {} THEN ords
        ELSE IF ords[o].status \notin StickyStatuses
             THEN [ords EXCEPT ![o] = CalculateTotals([@ EXCEPT !.status = NewStatus(statuses)])]
             ELSE ords

(* the event update_restaurant_order_status publishes to the order's room,
   when it ran on an order that has tickets and is not sticky *)
ReconcilerEvents(order, ran) ==
    IF ran /\ order.status \notin StickyStatuses
    THEN {"restaurant:order_status"} ELSE {}

-----------------------------------------------------------------------------
(* Ticket fan-out *)

(* no fall-back to the default station *)
StationOfNoDefault(line) == line.kitchen_station

StationOf(line) ==
    IF line.kitchen_station /= "" THEN line.kitchen_station ELSE DefaultStation

(* The ticket create_kitchen_orders builds for one station: idxs are the
   positions, in the order's lines, of the lines of that station. *)
NewKot(o, order, station, idxs) ==
    [restaurant_order |-> o, kitchen_station |-> station, status |-> "New",
     priority |-> "Normal", is_additional |-> FALSE, served_at |-> NoTime,
     items |-> [j \in DOMAIN idxs |->
                  [order_item |-> Ref(idxs[j]), menu_item |-> order.items[idxs[j]].menu_item,
                   qty |-> order.items[idxs[j]].qty, status |-> "Pending",
                   started_at |-> NoTime, completed_at |-> NoTime]]]

(* The ticket create_kitchen_orders_for_items builds for one station from the
   validated new items: its lines carry no order_item. *)
AdditionalKot(o, station, items) ==
    [restaurant_order |-> o, kitchen_station |-> station, status |-> "New",
     priority |-> "Normal", is_additional |-> TRUE, served_at |-> NoTime,
     items |-> [j \in DOMAIN items |->
                  [order_item |-> NoRef, menu_item |-> items[j].menu_item,
                   qty |-> items[j].qty, status |-> "Pending",
                   started_at |-> NoTime, completed_at |-> NoTime]]]

RECURSIVE Positions(_, _, _)
(* the positions i >= from of lines whose station is st, ascending *)
Positions(lines, st, from) ==
    IF from > Len(lines) THEN <<>>
    ELSE IF StationOf(lines[from]) = st
         THEN <<from>> \o Positions(lines, st, from + 1)
         ELSE Positions(lines, st, from + 1)

StationsOf(lines) == Distinct([i \in DOMAIN lines |-> StationOf(lines[i])])

RECURSIVE InsertKots(_, _, _)
(* kot.insert() for each new ticket in turn; KitchenOrder.on_update runs the
   reconciler after every insert.  <<orders, kots>> *)
InsertKots(ords, ks, new) ==
    IF new = <<>> THEN <<ords, ks>>
    ELSE LET ks1 == Append(ks, Head(new))
             ords1 == UpdateRestaurantOrderStatus(ords, ks1, Head(new).restaurant_order)
         IN  InsertKots(ords1, ks1, Tail(new))

CreateKitchenOrders(ords, ks, o) ==
    LET order == ords[o]
        stations == StationsOf(order.items)
        new == [n \in DOMAIN stations |->
                   NewKot(o, order, stations[n], Positions(order.items, stations[n], 1))]
    IN  InsertKots(ords, ks, new)

(* the fan-out of placement reused on append: tickets for all lines again *)
CreateKitchenOrdersForAll(ords, ks, o, new_items) == CreateKitchenOrders(ords, ks, o)

CreateKitchenOrdersForItems(ords, ks, o, new_items) ==
    LET stations == StationsOf(new_items)
        new == [n \in DOMAIN stations |->
                   AdditionalKot(o, stations[n],
                       SelectSeq(new_items, LAMBDA v : StationOf(v) = stations[n]))]
    IN  InsertKots(ords, ks, new)

-----------------------------------------------------------------------------
(* Initial state: no order, no ticket, no session *)

(* the JSON envelope every endpoint returns *)
Reply(ok, message) == [success |-> ok, message |-> message]

(* the web workers that serve requests in parallel, and a worker at rest *)
Workers == 1..MaxWorkers
Idle == [pc |-> "idle", kot_id |-> NoItem, status |-> "", item_id |-> NoItem,
         kot |-> NoRef, stale |-> FALSE, pass |-> 0, new_status |-> "",
         table |-> "", items |-> <<>>, session |-> NoRef]

(* no call of validate_order_items yet *)
NoValidation == [items |-> <<>>, validated |-> <<>>, errors |-> <<>>]

Init ==
    /\ orders = <<>>
    /\ kots = <<>>
    /\ sessions = <<>>
    /\ tables = [c \in TableCodes |->
                    [status |-> "Available", current_session |-> NoRef,
                     current_order |-> NoRef]]
    /\ now = 1
    /\ response = Reply(TRUE, "")
    /\ requests = [w \in Workers |-> Idle]
    /\ validation = NoValidation
    /\ published = {}
    /\ settings = Settings

(* the same with any Restaurant Settings *)
InitAnySettings ==
    /\ orders = <<>>
    /\ kots = <<>>
    /\ sessions = <<>>
    /\ tables = [c \in TableCodes |->
                    [status |-> "Available", current_session |-> NoRef,
                     current_order |-> NoRef]]
    /\ now = 1
    /\ response = Reply(TRUE, "")
    /\ requests = [w \in Workers |-> Idle]
    /\ validation = NoValidation
    /\ published = {}
    /\ settings \in AnySettings

Tick ==
    /\ now < MaxClock
    /\ now' = now + 1
    /\ UNCHANGED <<orders, kots, sessions, tables, response, requests, validation, published, settings>>

-----------------------------------------------------------------------------
(* api/order.py *)

OpenSessions(table) ==
    {s \in DOMAIN sessions :
        sessions[s].table = table /\ sessions[s].status \in OpenSessionStatuses}

VatPercentOr15 == IF settings.vat_percent /= 0 THEN settings.vat_percent ELSE 15

(* The order document place_order fills in before order.insert() *)
NewOrder(code, session, validated) ==
    LET subtotal == SumSeq([i \in DOMAIN validated |-> validated[i].total])
        service_charge == (subtotal * settings.service_charge_percent) \div 100
        vat == ((subtotal + service_charge) * VatPercentOr15) \div 100
    IN  [status |-> "New", table |-> code, table_session |-> session,
         items |-> [i \in DOMAIN validated |-> OrderLine(validated[i])],
         subtotal |-> subtotal, service_charge |-> service_charge,
         service_charge_percent |-> settings.service_charge_percent,
         vat |-> vat, vat_percent |-> VatPercentOr15,
         grand_total |-> subtotal + service_charge + vat,
         tax_amount |-> 0, tip_amount |-> 0, discount_amount |-> 0,
         paid_amount |-> 0, restaurant_table |-> ""]

(* validate_order_items(items) called and returning <<validated, errors>> *)
ValidateOrderItemsCall(items) ==
    /\ validation' = [items |-> items,
                      validated |-> ValidateOrderItems(items)[1],
                      errors |-> ValidateOrderItems(items)[2]]
    /\ UNCHANGED <<orders, kots, sessions, tables, now, response, requests, published, settings>>

PlaceOrderRejected(code, items) ==
    /\ \/ code \notin TableCodes
       \/ items = <<>>
       \/ ValidateOrderItems(items)[2] /= <<>>
    /\ response' = Reply(FALSE,
                         IF code \notin TableCodes THEN "Invalid table"
                         ELSE IF items = <<>> THEN "No items in order"
                         ELSE ValidateOrderItems(items)[2][1])
    /\ published' = {}
    /\ UNCHANGED <<orders, kots, sessions, tables, now, requests, validation, settings>>

(* get_or_create_table_session past the check: the session inserted for the
   table and written on it, as <<session name, sessions, tables>>.  The
   session's restaurant_table is left unset. *)
CreateTableSession(code) ==
    <<Len(sessions) + 1,
      Append(sessions, [table |-> code, restaurant_table |-> "", status |-> "Ordering",
                        started_at |-> Stamp(now)]),
      [tables EXCEPT ![code].current_session = Ref(Len(sessions) + 1)]>>

(* get_or_create_table_session: the open session found for the table, or a
   new one.  Each outcome is <<session name, sessions, tables>>. *)
GetOrCreateTableSession(code) ==
    IF OpenSessions(code) /= {}
    THEN {<<s, sessions, tables>> : s \in OpenSessions(code)}
    ELSE {CreateTableSession(code)}

(* place_order from order = frappe.new_doc("Restaurant Order") on, with the
   session got = <<session name, sessions, tables>> *)
InsertOrder(code, items, got) ==
    LET validated == ValidateOrderItems(items)[1]
        o == Len(orders) + 1
        inserted == Append(orders, CalculateTotals(NewOrder(code, got[1], validated)))
        res == CreateKitchenOrders(inserted, kots, o)
    IN  /\ orders' = res[1]
        /\ kots' = res[2]
        /\ sessions' = got[2]
        /\ tables' = got[3]
        /\ response' = Reply(TRUE, "Order placed successfully")
        /\ published' = {"restaurant:new_order"} \cup ReconcilerEvents(inserted[o], validated /= <<>>)

PlaceOrderAccepted(code, items) ==
    /\ code \in TableCodes
    /\ items /= <<>>
    /\ ValidateOrderItems(items)[2] = <<>>
    /\ Len(orders) < MaxOrders
    /\ \E got \in GetOrCreateTableSession(code) : InsertOrder(code, items, got)
    /\ UNCHANGED <<now, requests, validation, settings>>

PlaceOrder(code, items) ==
    \/ PlaceOrderRejected(code, items)
    \/ PlaceOrderAccepted(code, items)

(* The order document add_items_to_order saves: the new lines appended and
   the totals recomputed, then RestaurantOrder.validate on save() *)
OrderWithItems(order, validated) ==
    LET items == order.items \o [i \in DOMAIN validated |-> OrderLine(validated[i])]
        subtotal == SumSeq([i \in DOMAIN items |-> items[i].amount])
        service_charge == (subtotal * order.service_charge_percent) \div 100
        vat == ((subtotal + service_charge) * order.vat_percent) \div 100
    IN  CalculateTotals([order EXCEPT
            !.items = items, !.subtotal = subtotal, !.service_charge = service_charge,
            !.vat = vat, !.grand_total = subtotal + service_charge + vat])

AddItemsMissing(o, items) ==
    /\ o \notin DOMAIN orders
    /\ response' = Reply(FALSE, "Error adding items")
    /\ published' = {}
    /\ UNCHANGED <<orders, kots, sessions, tables, now, requests, validation, settings>>

AddItemsRejected(o, items) ==
    /\ o \in DOMAIN orders
    /\ \/ orders[o].status \in ClosedStatuses
       \/ ValidateOrderItems(items)[2] /= <<>>
    /\ response' = Reply(FALSE,
                         IF orders[o].status \in ClosedStatuses
                         THEN "Cannot modify this order"
                         ELSE ValidateOrderItems(items)[2][1])
    /\ published' = {}
    /\ UNCHANGED <<orders, kots, sessions, tables, now, requests, validation, settings>>

AddItemsAccepted(o, items, cap) ==
    /\ o \in DOMAIN orders
    /\ orders[o].status \notin ClosedStatuses
    /\ ValidateOrderItems(items)[2] = <<>>
    /\ LET validated == ValidateOrderItems(items)[1]
           saved == [orders EXCEPT ![o] = OrderWithItems(@, validated)]
           res == CreateKitchenOrdersForItems(saved, kots, o, validated)
       IN  /\ Len(orders[o].items) + Len(validated) <= cap
           /\ orders' = res[1]
           /\ kots' = res[2]
    /\ response' = Reply(TRUE, "Items added successfully")
    /\ published' = {"restaurant:new_order"}
                      \cup ReconcilerEvents(orders[o], ValidateOrderItems(items)[1] /= <<>>)
    /\ tables' = UpdateTableStatus(tables, orders[o], o)
    /\ UNCHANGED <<sessions, now, requests, validation, settings>>

(* cap bounds the lines an order may reach *)
AddItemsToOrder(o, items, cap) ==
    \/ AddItemsMissing(o, items)
    \/ AddItemsRejected(o, items)
    \/ AddItemsAccepted(o, items, cap)

-----------------------------------------------------------------------------
(* api/kitchen.py *)

(* the line update_order_status writes for item_id: the status, and the
   start time on Preparing, the completion time on Ready *)
UpdatedLine(line, status) ==
    [line EXCEPT !.status = status,
                 !.started_at = IF status = "Preparing" THEN Stamp(now) ELSE @,
                 !.completed_at = IF status = "Ready" THEN Stamp(now) ELSE @]

(* the ticket is promoted as soon as the updated line is Ready *)
UpdateItemAnyReady(kot, status, item_id) ==
    LET items == [j \in DOMAIN kot.items |->
                    IF j = item_id THEN UpdatedLine(kot.items[j], status)
                    ELSE kot.items[j]]
        any_ready == \E j \in DOMAIN items : items[j].status = "Ready"
    IN  [kot EXCEPT !.items = items,
                    !.status = IF any_ready THEN "Ready" ELSE @]

(* update_order_status with item_id: the line named item_id, if the ticket
   has one, takes the status; the ticket is promoted when all lines are Ready *)
UpdateItem(kot, status, item_id) ==
    LET items == [j \in DOMAIN kot.items |->
                    IF j = item_id THEN UpdatedLine(kot.items[j], status)
                    ELSE kot.items[j]]
        all_ready == \A j \in DOMAIN items : items[j].status = "Ready"
    IN  [kot EXCEPT !.items = items,
                    !.status = IF all_ready THEN "Ready" ELSE @]

(* every line is put to Preparing, whatever its status *)
UpdateKotRestartsLines(kot, status) ==
    [kot EXCEPT
        !.status = status,
        !.items = [j \in DOMAIN kot.items |->
            IF status = "Preparing"
            THEN [kot.items[j] EXCEPT !.status = "Preparing", !.started_at = Stamp(now)]
            ELSE IF status = "Ready" /\ kot.items[j].status /= "Ready"
            THEN [kot.items[j] EXCEPT !.status = "Ready", !.completed_at = Stamp(now)]
            ELSE kot.items[j]]]

(* only the lines that are Preparing are made Ready *)
UpdateKotReadiesStarted(kot, status) ==
    [kot EXCEPT
        !.status = status,
        !.items = [j \in DOMAIN kot.items |->
            IF status = "Preparing" /\ kot.items[j].status = "Pending"
            THEN [kot.items[j] EXCEPT !.status = "Preparing", !.started_at = Stamp(now)]
            ELSE IF status = "Ready" /\ kot.items[j].status = "Preparing"
            THEN [kot.items[j] EXCEPT !.status = "Ready", !.completed_at = Stamp(now)]
            ELSE kot.items[j]]]

(* update_order_status without item_id *)
UpdateKot(kot, status) ==
    [kot EXCEPT
        !.status = status,
        !.items = [j \in DOMAIN kot.items |->
            IF status = "Preparing" /\ kot.items[j].status = "Pending"
            THEN [kot.items[j] EXCEPT !.status = "Preparing", !.started_at = Stamp(now)]
            ELSE IF status = "Ready" /\ kot.items[j].status /= "Ready"
            THEN [kot.items[j] EXCEPT !.status = "Ready", !.completed_at = Stamp(now)]
            ELSE kot.items[j]]]

(* the request for a missing ticket answered like any other *)
UpdateOrderStatusMissingAccepted(k, status, item_id) ==
    /\ k \notin DOMAIN kots
    /\ response' = Reply(TRUE, "Status updated")
    /\ published' = {}
    /\ UNCHANGED <<orders, kots, sessions, tables, now, requests, validation, settings>>

(* what update_order_status publishes once the ticket is saved: the
   station-scoped update, and the waiter-scoped event if the ticket is Ready *)
KotEvents(kot) ==
    {"restaurant:kot_update"}
        \cup (IF kot.status = "Ready" THEN {"restaurant:order_ready"} ELSE {})

UpdateOrderStatusMissing(k, status, item_id) ==
    /\ k \notin DOMAIN kots
    /\ response' = Reply(FALSE, "not found")
    /\ published' = {}
    /\ UNCHANGED <<orders, kots, sessions, tables, now, requests, validation, settings>>

UpdateOrderStatusFound(k, status, item_id) ==
    /\ k \in DOMAIN kots
    /\ LET kot == IF item_id /= NoItem THEN UpdateItem(kots[k], status, item_id)
                  ELSE UpdateKot(kots[k], status)
           o == kots[k].restaurant_order
           saved == [kots EXCEPT ![k] = kot]
           \* kot.save() runs on_update, then the endpoint reconciles again
           ords1 == UpdateRestaurantOrderStatus(orders, saved, o)
       IN  /\ kots' = saved
           /\ orders' = UpdateRestaurantOrderStatus(ords1, saved, o)
           /\ response' = Reply(TRUE, "Status updated")
           /\ tables' = ReconcilerTables(tables, orders, saved, o)
           /\ published' = KotEvents(kot) \cup ReconcilerEvents(orders[o], TRUE)
    /\ UNCHANGED <<sessions, now, requests, validation, settings>>

(* update_order_status when frappe.publish_realtime raises at the
   station-scoped publish: the ticket is saved and the order reconciled, the
   exception handler returns the error, and frappe.db.commit() is not
   reached, so the writes stay or go with the way the request ends *)
UpdateOrderStatusPublishFails(k, status, item_id) ==
    /\ k \in DOMAIN kots
    /\ LET kot == IF item_id /= NoItem THEN UpdateItem(kots[k], status, item_id)
                  ELSE UpdateKot(kots[k], status)
           o == kots[k].restaurant_order
           saved == [kots EXCEPT ![k] = kot]
           ords1 == UpdateRestaurantOrderStatus(orders, saved, o)
       IN  /\ \/ /\ kots' = saved
                 /\ orders' = UpdateRestaurantOrderStatus(ords1, saved, o)
                 /\ tables' = ReconcilerTables(tables, orders, saved, o)
              \/ UNCHANGED <<orders, kots, tables>>
           /\ published' = ReconcilerEvents(orders[o], TRUE)
    /\ response' = Reply(FALSE, "publish failed")
    /\ UNCHANGED <<sessions, now, requests, validation, settings>>

UpdateOrderStatus(k, status, item_id) ==
    \/ UpdateOrderStatusMissing(k, status, item_id)
    \/ UpdateOrderStatusFound(k, status, item_id)

(* only the lines that are Ready are served *)
ServedKotReadyLines(kot) ==
    [kot EXCEPT !.status = "Served", !.served_at = Stamp(now),
                !.items = [j \in DOMAIN kot.items |->
                              IF kot.items[j].status = "Ready"
                              THEN [kot.items[j] EXCEPT !.status = "Served"]
                              ELSE kot.items[j]]]

ServedKot(kot) ==
    [kot EXCEPT !.status = "Served", !.served_at = Stamp(now),
                !.items = [j \in DOMAIN kot.items |->
                              [kot.items[j] EXCEPT !.status = "Served"]]]

(* the check reading the tickets as they were before this ticket was saved *)
AllServedBeforeSave(ks, o) ==
    ~\E k \in KotsOf(kots, o) : kots[k].status \notin {"Served", "Cancelled"}

AllServed(ks, o) ==
    ~\E k \in KotsOf(ks, o) : ks[k].status \notin {"Served", "Cancelled"}

(* the order lines the ticket's lines point to take the status *)
SetOrderItems(order, kot, status) ==
    [order EXCEPT !.items = [i \in DOMAIN order.items |->
        IF \E j \in DOMAIN kot.items : kot.items[j].order_item = Ref(i)
        THEN [order.items[i] EXCEPT !.status = status]
        ELSE order.items[i]]]

BumpOrder(k) ==
    \/ /\ k \notin DOMAIN kots
       /\ response' = Reply(FALSE, "not found")
       /\ published' = {}
       /\ UNCHANGED <<orders, kots, sessions, tables, now, requests, validation, settings>>
    \/ /\ k \in DOMAIN kots
       /\ LET kot == ServedKot(kots[k])
              o == kots[k].restaurant_order
              saved == [kots EXCEPT ![k] = kot]
              ords1 == UpdateRestaurantOrderStatus(orders, saved, o)
              ords2 == IF AllServed(saved, o)
                       THEN [ords1 EXCEPT ![o].status = "Served"] ELSE ords1
          IN  /\ kots' = saved
              /\ orders' = [ords2 EXCEPT ![o] = SetOrderItems(@, kot, "Served")]
              /\ tables' = ReconcilerTables(tables, orders, saved, o)
              /\ response' = Reply(TRUE, "Order bumped")
              /\ published' = ReconcilerEvents(orders[o], TRUE)
       /\ UNCHANGED <<sessions, now, requests, validation, settings>>

(* the served time survives the recall *)
RecalledKotKeepsStamp(kot) ==
    [kot EXCEPT !.status = "Ready",
                !.items = [j \in DOMAIN kot.items |->
                              [kot.items[j] EXCEPT !.status = "Ready"]]]

RecalledKot(kot) ==
    [kot EXCEPT !.status = "Ready", !.served_at = NoTime,
                !.items = [j \in DOMAIN kot.items |->
                              [kot.items[j] EXCEPT !.status = "Ready"]]]

RecallOrder(k) ==
    \/ /\ k \notin DOMAIN kots
       /\ response' = Reply(FALSE, "not found")
       /\ published' = {}
       /\ UNCHANGED <<orders, kots, sessions, tables, now, requests, validation, settings>>
    \/ /\ k \in DOMAIN kots
       /\ LET o == kots[k].restaurant_order
              saved == [kots EXCEPT ![k] = RecalledKot(@)]
              ords1 == UpdateRestaurantOrderStatus(orders, saved, o)
          IN  /\ kots' = saved
              /\ orders' = [ords1 EXCEPT ![o].status = "Ready"]
              /\ tables' = ReconcilerTables(tables, orders, saved, o)
              /\ response' = Reply(TRUE, "Order recalled")
              /\ published' = {"restaurant:kot_recall"} \cup ReconcilerEvents(orders[o], TRUE)
       /\ UNCHANGED <<sessions, now, requests, validation, settings>>

(* recall_order when frappe.publish_realtime raises: the recall is already
   committed, and the exception handler returns the error *)
RecallOrderPublishFails(k) ==
    /\ k \in DOMAIN kots
    /\ LET o == kots[k].restaurant_order
           saved == [kots EXCEPT ![k] = RecalledKot(@)]
           ords1 == UpdateRestaurantOrderStatus(orders, saved, o)
       IN  /\ kots' = saved
           /\ orders' = [ords1 EXCEPT ![o].status = "Ready"]
           /\ tables' = ReconcilerTables(tables, orders, saved, o)
           /\ published' = ReconcilerEvents(orders[o], TRUE)
    /\ response' = Reply(FALSE, "publish failed")
    /\ UNCHANGED <<sessions, now, requests, validation, settings>>

(* set_priority: frappe.db.set_value writes the priority of the ticket named
   kot_id, which changes no row when there is no such ticket; get_doc then
   raises for a missing ticket and the handler returns the error *)
SetPriorityMissing(k, priority) ==
    /\ k \notin DOMAIN kots
    /\ response' = Reply(FALSE, "not found")
    /\ published' = {}
    /\ UNCHANGED <<orders, kots, sessions, tables, now, requests, validation, settings>>

SetPriorityFound(k, priority) ==
    /\ k \in DOMAIN kots
    /\ kots' = [kots EXCEPT ![k].priority = priority]
    /\ response' = Reply(TRUE, "Priority updated")
    /\ published' = {"restaurant:kot_priority"}
    /\ UNCHANGED <<orders, sessions, tables, now, requests, validation, settings>>

SetPriority(k, priority) ==
    \/ SetPriorityMissing(k, priority)
    \/ SetPriorityFound(k, priority)

(* get_order_status: the share of the order's lines that are Ready or
   Served, as a whole percentage; 0 for an order without lines *)
Progress(order) ==
    LET total_items == Len(order.items)
        completed_items == Cardinality({i \in DOMAIN order.items :
                                          order.items[i].status \in {"Ready", "Served"}})
    IN  IF total_items > 0 THEN (completed_items * 100) \div total_items ELSE 0

-----------------------------------------------------------------------------
(* doctype/restaurant_order/restaurant_order.py *)

(* RestaurantTable.close_table: the table's current session is closed and
   the table is reset *)
ClosedTable(table) ==
    [table EXCEPT !.status = "Available", !.current_order = NoRef,
                  !.current_session = NoRef]

ClosedSessions(sess, table) ==
    IF table.current_session /= NoRef
    THEN [sess EXCEPT ![table.current_session[1]].status = "Closed"]
    ELSE sess

(* RestaurantOrder.cancel_order: the order, then every ticket of it, then
   the table in the order's restaurant_table *)
CancelOrder(o) ==
    /\ o \in DOMAIN orders
    /\ orders' = [orders EXCEPT ![o] = CalculateTotals([@ EXCEPT !.status = "Cancelled"])]
    /\ kots' = [k \in DOMAIN kots |->
                  IF kots[k].restaurant_order = o
                  THEN [kots[k] EXCEPT !.status = "Cancelled"] ELSE kots[k]]
    /\ tables' = IF orders[o].restaurant_table /= ""
                 THEN [tables EXCEPT ![orders[o].restaurant_table].status = "Available",
                                     ![orders[o].restaurant_table].current_order = NoRef]
                 ELSE tables
    /\ response' = Reply(TRUE, "")
    /\ published' = {}
    /\ UNCHANGED <<sessions, now, requests, validation, settings>>

(* RestaurantOrder.process_payment(amount, method) *)
ProcessPayment(o, amount) ==
    /\ o \in DOMAIN orders
    /\ orders[o].paid_amount < orders[o].grand_total
    /\ LET paid == orders[o].paid_amount + amount
       IN  orders' = [orders EXCEPT ![o] = CalculateTotals(
                         [@ EXCEPT !.paid_amount = paid,
                                   !.status = IF paid >= orders[o].grand_total
                                              THEN "Paid" ELSE @])]
    /\ tables' = UpdateTableStatus(tables, orders'[o], o)
    /\ response' = Reply(TRUE, "")
    /\ published' = {}
    /\ UNCHANGED <<kots, sessions, now, requests, validation, settings>>

(* RestaurantOrder.complete_order: the order, then close_table() on the
   table in the order's restaurant_table *)
CompleteOrder(o) ==
    /\ o \in DOMAIN orders
    /\ orders' = [orders EXCEPT ![o] = CalculateTotals([@ EXCEPT !.status = "Completed"])]
    /\ IF orders[o].restaurant_table /= ""
       THEN /\ tables' = [tables EXCEPT ![orders[o].restaurant_table] = ClosedTable(@)]
            /\ sessions' = ClosedSessions(sessions, tables[orders[o].restaurant_table])
       ELSE UNCHANGED <<tables, sessions>>
    /\ response' = Reply(TRUE, "")
    /\ published' = {}
    /\ UNCHANGED <<kots, now, requests, validation, settings>>

(* The order document saved with a discount_amount set on it:
   RestaurantOrder.validate recomputes the totals *)
SaveWithDiscount(o, discount) ==
    /\ o \in DOMAIN orders
    /\ orders' = [orders EXCEPT ![o] =
                     CalculateTotals([@ EXCEPT !.discount_amount = discount])]
    /\ tables' = UpdateTableStatus(tables, orders[o], o)
    /\ response' = Reply(TRUE, "")
    /\ published' = {}
    /\ UNCHANGED <<kots, sessions, now, requests, validation, settings>>

(* The order document saved with a restaurant_table set on it: place_order
   fills in "table" and leaves restaurant_table empty, and on_update links
   the table to the order only through restaurant_table *)
SaveWithTable(o, code) ==
    /\ o \in DOMAIN orders
    /\ code \in TableCodes
    /\ orders' = [orders EXCEPT ![o] =
                     CalculateTotals([@ EXCEPT !.restaurant_table = code])]
    /\ tables' = UpdateTableStatus(tables, orders'[o], o)
    /\ response' = Reply(TRUE, "")
    /\ published' = {}
    /\ UNCHANGED <<kots, sessions, now, requests, validation, settings>>

-----------------------------------------------------------------------------
(* events/pos_invoice.py *)

(* revert_restaurant_order_payment, run when a POS Invoice of the order for
   the given amount is cancelled *)
RevertRestaurantOrderPayment(o, amount) ==
    /\ o \in DOMAIN orders
    /\ LET total_paid == IF orders[o].paid_amount - amount > 0
                         THEN orders[o].paid_amount - amount ELSE 0
       IN  orders' = [orders EXCEPT ![o].paid_amount = total_paid,
                                    ![o].status = "Served"]
    /\ UNCHANGED <<kots, sessions, tables, now, response, requests, validation, published, settings>>

-----------------------------------------------------------------------------
(* api/waiter.py *)

(* seat_guests on an occupied table *)
SeatGuestsRefused(code) ==
    /\ code \in TableCodes
    /\ tables[code].status = "Occupied"
    /\ response' = Reply(FALSE, "Table is already occupied")
    /\ published' = {}
    /\ UNCHANGED <<orders, kots, sessions, tables, now, requests, validation, settings>>

(* seat_guests: an Active session is inserted with the table in its
   restaurant_table, no existing session is looked for, and the table
   becomes Occupied with this session as its current one *)
SeatGuestsAccepted(code) ==
    /\ code \in TableCodes
    /\ tables[code].status /= "Occupied"
    /\ sessions' = Append(sessions, [table |-> "", restaurant_table |-> code,
                                     status |-> "Active", started_at |-> Stamp(now)])
    /\ tables' = [tables EXCEPT ![code].status = "Occupied",
                                ![code].current_session = Ref(Len(sessions) + 1)]
    /\ response' = Reply(TRUE, "Guests seated")
    /\ published' = {}
    /\ UNCHANGED <<orders, kots, now, requests, validation, settings>>

SeatGuests(code) ==
    \/ SeatGuestsRefused(code)
    \/ SeatGuestsAccepted(code)

(* the test on the current order left out *)
CanCloseAlways(table) == TRUE

(* the table has no current order, or one that is Paid or Cancelled *)
CanClose(table) ==
    IF table.current_order = NoRef THEN TRUE
    ELSE orders[table.current_order[1]].status \in {"Paid", "Cancelled"}

(* close_table on a table whose current order is not Paid or Cancelled *)
CloseTableRefused(code) ==
    /\ code \in TableCodes
    /\ ~CanClose(tables[code])
    /\ response' = Reply(FALSE, "Please complete payment before closing table")
    /\ published' = {}
    /\ UNCHANGED <<orders, kots, sessions, tables, now, requests, validation, settings>>

(* close_table: the current session is closed and the table reset *)
CloseTableAccepted(code) ==
    /\ code \in TableCodes
    /\ CanClose(tables[code])
    /\ sessions' = ClosedSessions(sessions, tables[code])
    /\ tables' = [tables EXCEPT ![code] = ClosedTable(@)]
    /\ response' = Reply(TRUE, "Table closed")
    /\ published' = {}
    /\ UNCHANGED <<orders, kots, now, requests, validation, settings>>

CloseTable(code) ==
    \/ CloseTableRefused(code)
    \/ CloseTableAccepted(code)

-----------------------------------------------------------------------------
(* update_order_status served by a worker w one database access at a time.
   The code takes no lock and does not retry: nothing orders the accesses of
   two workers. *)

(* kot = frappe.get_doc("Kitchen Order", kot_id) *)
LoadKot(w, k, status, item_id) ==
    /\ requests[w].pc = "idle"
    /\ k \in DOMAIN kots
    /\ requests' = [requests EXCEPT ![w] =
                       [Idle EXCEPT !.pc = "loaded", !.kot_id = k, !.status = status,
                                    !.item_id = item_id, !.kot = kots[k]]]
    /\ UNCHANGED <<orders, kots, sessions, tables, now, response, validation, published, settings>>

(* the loop over the loaded lines, the all-Ready check and kot.save(): the
   loaded document, changed, replaces the stored one, and the copies other
   workers loaded before are out of date.  For a copy that is out of date
   this is the save that goes through. *)
SaveKot(w) ==
    /\ requests[w].pc = "loaded"
    /\ LET r == requests[w]
           kot == IF r.item_id /= NoItem THEN UpdateItem(r.kot, r.status, r.item_id)
                  ELSE UpdateKot(r.kot, r.status)
       IN  /\ kots' = [kots EXCEPT ![r.kot_id] = kot]
           /\ requests' = [v \in Workers |->
                  IF v = w THEN [r EXCEPT !.pc = "reconcile", !.kot = kot, !.pass = 1]
                  ELSE IF requests[v].pc = "loaded" /\ requests[v].kot_id = r.kot_id
                       THEN [requests[v] EXCEPT !.stale = TRUE]
                       ELSE requests[v]]
    /\ UNCHANGED <<orders, sessions, tables, now, response, validation, published, settings>>

(* kot.save() of a copy that is out of date raising: the exception handler
   of update_order_status returns the error *)
SaveKotRefused(w) ==
    /\ requests[w].pc = "loaded"
    /\ requests[w].stale
    /\ requests' = [requests EXCEPT ![w].pc = "done"]
    /\ response' = Reply(FALSE, "Document has been modified")
    /\ published' = {}
    /\ UNCHANGED <<orders, kots, sessions, tables, now, validation, settings>>

(* update_restaurant_order_status, first half: the tickets' statuses are
   read and new_status computed.  It runs in on_update (pass 1) and again
   from the endpoint (pass 2). *)
ReadKotStatuses(w) ==
    /\ requests[w].pc = "reconcile"
    /\ LET o == requests[w].kot.restaurant_order
           statuses == {kots[k].status : k \in KotsOf(kots, o)}
       IN  requests' = [requests EXCEPT ![w].pc = "write",
                                        ![w].new_status = NewStatus(statuses)]
    /\ UNCHANGED <<orders, kots, sessions, tables, now, response, validation, published, settings>>

(* update_restaurant_order_status, second half: the order is loaded and,
   unless its status is sticky, saved with new_status; after pass 2 the
   endpoint returns *)
WriteOrderStatus(w) ==
    /\ requests[w].pc = "write"
    /\ LET r == requests[w]
           o == r.kot.restaurant_order
       IN  /\ orders' = IF orders[o].status \notin StickyStatuses
                         THEN [orders EXCEPT ![o] =
                                  CalculateTotals([@ EXCEPT !.status = r.new_status])]
                         ELSE orders
           /\ tables' = IF orders[o].status \notin StickyStatuses
                         THEN UpdateTableStatus(tables,
                                  [orders[o] EXCEPT !.status = r.new_status], o)
                         ELSE tables
           /\ IF r.pass = 1
              THEN /\ requests' = [requests EXCEPT ![w].pc = "reconcile", ![w].pass = 2]
                   /\ UNCHANGED <<response, published>>
              ELSE /\ requests' = [requests EXCEPT ![w].pc = "done"]
                   /\ response' = Reply(TRUE, "Status updated")
                   /\ published' = KotEvents(r.kot) \cup ReconcilerEvents(orders[o], TRUE)
    /\ UNCHANGED <<kots, sessions, now, validation, settings>>

-----------------------------------------------------------------------------
(* place_order served by a worker w one database access at a time.
   get_or_create_table_session looks for an open session and inserts one when
   it found none; it takes no lock, and nothing in it makes the open session
   of a table unique. *)

(* place_order up to the check of get_or_create_table_session: the table and
   the items are valid, and the name of an open session of the table, if
   there is one, is read *)
FindTableSession(w, code, items) ==
    /\ requests[w].pc = "idle"
    /\ code \in TableCodes
    /\ items /= <<>>
    /\ ValidateOrderItems(items)[2] = <<>>
    /\ \E found \in IF OpenSessions(code) /= {}
                     THEN {Ref(s) : s \in OpenSessions(code)} ELSE {NoRef} :
          requests' = [requests EXCEPT ![w] =
                          [Idle EXCEPT !.pc = IF found = NoRef THEN "no_session"
                                              ELSE "session",
                                       !.table = code, !.items = items,
                                       !.session = found]]
    /\ UNCHANGED <<orders, kots, sessions, tables, now, response, validation, published, settings>>

(* no session was found: one is inserted and written on the table *)
InsertTableSession(w) ==
    /\ requests[w].pc = "no_session"
    /\ LET got == CreateTableSession(requests[w].table)
       IN  /\ sessions' = got[2]
           /\ tables' = got[3]
           /\ requests' = [requests EXCEPT ![w].pc = "session", ![w].session = Ref(got[1])]
    /\ UNCHANGED <<orders, kots, now, response, validation, published, settings>>

(* the rest of place_order, with the session this request holds *)
InsertOrderWithSession(w) ==
    /\ requests[w].pc = "session"
    /\ Len(orders) < MaxOrders
    /\ InsertOrder(requests[w].table, requests[w].items,
                   <<requests[w].session[1], sessions, tables>>)
    /\ requests' = [requests EXCEPT ![w].pc = "done"]
    /\ UNCHANGED <<now, validation, settings>>

-----------------------------------------------------------------------------

(* The requests of a service at one table: one line; two lines of one
   station; two lines of two stations; and requests that are refused. *)
Burger == Entry("Burger", 1)
Juice == Entry("Juice", 1)
ServicePlaceRequests == {<<Burger>>, <<Burger, Burger>>, <<Burger, Juice>>}
ServiceAddRequests == {<<Juice>>, <<Burger>>}

(* The requests that put one ticket on the kitchen display *)
KdsPlaceRequests == {<<Burger>>, <<Burger, Burger, Burger>>}

Ordering(codes, placeReqs, addReqs, cap) ==
    \/ \E code \in codes, items \in placeReqs : PlaceOrder(code, items)
    \/ \E o \in DOMAIN orders, items \in addReqs :
          \/ AddItemsRejected(o, items)
          \/ AddItemsAccepted(o, items, cap)
    \/ AddItemsMissing(UnknownOrder, <<Burger>>)

(* the kitchen display's requests on the tickets ks *)
Kitchen(ks, kotInputs, itemInputs) ==
    \/ \E k \in ks, st \in kotInputs : UpdateOrderStatus(k, st, NoItem)
    \/ \E k \in DOMAIN kots, st \in itemInputs :
          \E i \in 1..(Len(kots[k].items) + 1) : UpdateOrderStatus(k, st, i)
    \/ \E k \in ks : BumpOrder(k)
    \/ \E k \in ks : RecallOrder(k)

Lifecycle ==
    \/ \E o \in DOMAIN orders : CancelOrder(o)
    \/ \E o \in DOMAIN orders : ProcessPayment(o, orders[o].grand_total)
    \/ \E o \in DOMAIN orders : CompleteOrder(o)
    \/ \E o \in DOMAIN orders : RevertRestaurantOrderPayment(o, orders[o].grand_total)

(* A service at one table: orders placed and appended to, and the kitchen
   display working on their tickets *)
Next ==
    \/ \E items \in ServicePlaceRequests : PlaceOrderAccepted("T1", items)
    \/ \E o \in DOMAIN orders, items \in ServiceAddRequests :
          AddItemsAccepted(o, items, MaxLines)
    \/ \E k \in DOMAIN kots, st \in KotStatusInputs : UpdateOrderStatusFound(k, st, NoItem)
    \/ \E k \in DOMAIN kots, st \in ItemStatusInputs :
          \E i \in DOMAIN kots[k].items : UpdateOrderStatusFound(k, st, i)
    \/ \E k \in DOMAIN kots : BumpOrder(k)
    \/ \E k \in DOMAIN kots : RecallOrder(k)

Spec == Init /\ [][Next]_vars

(* The life of one order: the kitchen display, payment, payment reversal,
   completion, cancellation, and an append requested while the order is
   open or once it is closed *)
NextLifecycle ==
    \/ PlaceOrderAccepted("T1", <<Burger>>)
    \/ \E o \in DOMAIN orders : AddItemsRejected(o, <<Juice>>)
    \/ \E o \in DOMAIN orders : AddItemsAccepted(o, <<Juice>>, MaxLines)
    \/ \E k \in DOMAIN kots, st \in KotStatusInputs : UpdateOrderStatusFound(k, st, NoItem)
    \/ \E k \in DOMAIN kots, st \in ItemStatusInputs :
          \E i \in DOMAIN kots[k].items : UpdateOrderStatusFound(k, st, i)
    \/ \E k \in DOMAIN kots : BumpOrder(k)
    \/ \E k \in DOMAIN kots : RecallOrder(k)
    \/ Lifecycle

SpecLifecycle == Init /\ [][NextLifecycle]_vars

(* One ticket on the kitchen display while time passes; requests may name
   a ticket or a line that does not exist *)
NextKds ==
    \/ Tick
    \/ \E code \in TableCodes, items \in KdsPlaceRequests : PlaceOrderAccepted(code, items)
    \/ Kitchen(0..Len(kots), ItemStatusInputs, ItemStatusInputs)

SpecKds == Init /\ [][NextKds]_vars

(* Orders placed and appended to from the whole menu, while the kitchen
   marks whole tickets Ready *)
OrderingMaxLines == MaxReqItems + 1
NextOrdering ==
    \/ Ordering(TableCodes, Requests, Requests, OrderingMaxLines)
    \/ PlaceOrderRejected(BadTableCode, <<Burger>>)
    \/ \E k \in 1..Len(kots) : UpdateOrderStatusFound(k, "Ready", NoItem)

SpecOrdering == Init /\ [][NextOrdering]_vars

(* Orders placed and appended to while the menu has an enabled item whose
   is_available flag is off *)
SoldOutRequests ==
    {<<>>, <<Burger>>, <<Juice>>, <<Entry("Special", 1)>>,
     <<Burger, Entry("Special", 1)>>, <<Entry("Old", 1)>>}

NextSoldOut == Ordering(TableCodes, SoldOutRequests, SoldOutRequests, OrderingMaxLines)

SpecSoldOut == Init /\ [][NextSoldOut]_vars

(* validate_order_items on entries of every kind: quantities below and
   above 1, modifiers with and without a price, items missing, disabled and
   out of stock *)
ModifierLists == {<<>>, <<Modifier(500)>>, <<Modifier(500), Modifier(0)>>}
ValidateEntries ==
    {EntryWith(m, q, mods) : m \in {"Burger", "Old", "Steak", MissingItem},
                             q \in 0..2, mods \in ModifierLists}
ValidateRequests == UNION {[1..n -> ValidateEntries] : n \in 0..MaxReqItems}

NextValidate == \E items \in ValidateRequests : ValidateOrderItemsCall(items)

SpecValidate == Init /\ [][NextValidate]_vars

(* Orders placed and appended to under any Restaurant Settings *)
NextAnySettings ==
    \/ \E code \in TableCodes, items \in ServicePlaceRequests : PlaceOrderAccepted(code, items)
    \/ \E o \in DOMAIN orders, items \in ServiceAddRequests :
          AddItemsAccepted(o, items, OrderingMaxLines)
    \/ \E k \in DOMAIN kots : UpdateOrderStatusFound(k, "Ready", NoItem)

SpecAnySettings == InitAnySettings /\ [][NextAnySettings]_vars

(* Orders placed, appended to and given a discount while the kitchen marks
   tickets Ready *)
DiscountInputs == {0, 5000, 20000}

NextDiscount ==
    \/ \E code \in TableCodes, items \in ServicePlaceRequests : PlaceOrderAccepted(code, items)
    \/ \E o \in DOMAIN orders, items \in ServiceAddRequests :
          AddItemsAccepted(o, items, OrderingMaxLines)
    \/ \E o \in DOMAIN orders, discount \in DiscountInputs : SaveWithDiscount(o, discount)
    \/ \E k \in DOMAIN kots : UpdateOrderStatusFound(k, "Ready", NoItem)

SpecDiscount == Init /\ [][NextDiscount]_vars

(* The kitchen display at work while the realtime bus may fail *)
NextPublishFails ==
    \/ \E code \in TableCodes, items \in KdsPlaceRequests : PlaceOrderAccepted(code, items)
    \/ \E k \in DOMAIN kots, st \in ItemStatusInputs : UpdateOrderStatusFound(k, st, NoItem)
    \/ \E k \in DOMAIN kots : BumpOrder(k)
    \/ \E k \in DOMAIN kots : RecallOrder(k)
    \/ \E k \in DOMAIN kots, st \in ItemStatusInputs :
          UpdateOrderStatusPublishFails(k, st, NoItem)
    \/ \E k \in DOMAIN kots : RecallOrderPublishFails(k)

SpecPublishFails == Init /\ [][NextPublishFails]_vars

(* The kitchen display naming tickets that exist and tickets that do not *)
PriorityInputs == {"Rush", "Low"}

NextNotFound ==
    \/ \E code \in TableCodes, items \in KdsPlaceRequests : PlaceOrderAccepted(code, items)
    \/ Kitchen(0..Len(kots), {"Ready"}, {"Ready"})
    \/ \E k \in 0..Len(kots), priority \in PriorityInputs : SetPriority(k, priority)

SpecNotFound == Init /\ [][NextNotFound]_vars

(* One order of two lines, on one ticket or on two, while each worker
   serves one request that marks a line or a whole ticket Ready *)
ConcurrentPlaceRequests == {<<Burger, Burger>>, <<Burger, Juice>>}

NextConcurrent ==
    \/ \E code \in TableCodes, items \in ConcurrentPlaceRequests :
          PlaceOrderAccepted(code, items)
    \/ \E w \in Workers, k \in DOMAIN kots :
          \E i \in {NoItem} \cup DOMAIN kots[k].items : LoadKot(w, k, "Ready", i)
    \/ \E w \in Workers : SaveKot(w)
    \/ \E w \in Workers : SaveKotRefused(w)
    \/ \E w \in Workers : ReadKotStatuses(w)
    \/ \E w \in Workers : WriteOrderStatus(w)

SpecConcurrent == Init /\ [][NextConcurrent]_vars

(* One order of two lines on two stations taken through the kitchen: each
   new ticket is started, then each started line is marked Ready *)
TwoStationRequests ==
    {items \in [1..2 -> GoodEntries] :
        StationOf(ValidatedLine(items[1])) /= StationOf(ValidatedLine(items[2]))}

NextEndToEnd ==
    \/ Tick
    \/ \E code \in TableCodes, items \in TwoStationRequests : PlaceOrderAccepted(code, items)
    \/ \E k \in DOMAIN kots :
          /\ kots[k].status = "New"
          /\ UpdateOrderStatusFound(k, "Preparing", NoItem)
    \/ \E k \in DOMAIN kots : \E i \in DOMAIN kots[k].items :
          /\ kots[k].items[i].status = "Preparing"
          /\ UpdateOrderStatusFound(k, "Ready", i)

SpecEndToEnd == Init /\ [][NextEndToEnd]_vars

(* Orders of one or two tickets worked on from the kitchen display, which
   lists the tickets that are New, Preparing or Ready: the staff start and
   complete the listed tickets and lines and bump them; nothing is appended,
   recalled or cancelled.  Every listed ticket is bumped in the end. *)
Displayed(kot) == kot.status \in {"New", "Preparing", "Ready"}

BumpPlaceRequests == {<<Burger>>, <<Burger, Juice>>}

UpdateDisplayed(k, status, item_id) ==
    /\ k \in DOMAIN kots
    /\ Displayed(kots[k])
    /\ UpdateOrderStatusFound(k, status, item_id)

BumpDisplayed(k) ==
    /\ k \in DOMAIN kots
    /\ Displayed(kots[k])
    /\ BumpOrder(k)

NextBump ==
    \/ \E items \in BumpPlaceRequests : PlaceOrderAccepted("T1", items)
    \/ \E k \in DOMAIN kots, st \in ItemStatusInputs : UpdateDisplayed(k, st, NoItem)
    \/ \E k \in DOMAIN kots, st \in ItemStatusInputs :
          \E i \in DOMAIN kots[k].items : UpdateDisplayed(k, st, i)
    \/ \E k \in 1..MaxLines : BumpDisplayed(k)

SpecBump ==
    Init /\ [][NextBump]_vars /\ \A k \in 1..MaxLines : WF_vars(BumpDisplayed(k))

(* Customers ordering at one table through two workers while a waiter seats
   guests at it *)
SessionPlaceRequests == {<<Burger>>, <<Juice>>, <<Burger, Juice>>}

NextSessions ==
    \/ Tick
    \/ \E w \in Workers, items \in SessionPlaceRequests : FindTableSession(w, "T1", items)
    \/ \E w \in Workers : InsertTableSession(w)
    \/ \E w \in Workers : InsertOrderWithSession(w)
    \/ \E code \in TableCodes : SeatGuestsRefused(code)
    \/ \E code \in TableCodes : SeatGuestsAccepted(code)

SpecSessions == Init /\ [][NextSessions]_vars

(* One table through a sitting: guests are seated, an order is placed and
   linked to the table, sent to the kitchen, paid, cancelled or completed,
   and the waiter closes the table at any moment *)
NextCloseTable ==
    \/ PlaceOrderAccepted("T1", <<Burger>>)
    \/ \E o \in DOMAIN orders, code \in TableCodes : SaveWithTable(o, code)
    \/ \E k \in DOMAIN kots : UpdateOrderStatusFound(k, "Ready", NoItem)
    \/ \E o \in DOMAIN orders : ProcessPayment(o, orders[o].grand_total)
    \/ \E o \in DOMAIN orders : CancelOrder(o)
    \/ \E o \in DOMAIN orders : CompleteOrder(o)
    \/ \E code \in TableCodes : SeatGuestsRefused(code)
    \/ \E code \in TableCodes : Len(sessions) < MaxSessions /\ SeatGuestsAccepted(code)
    \/ \E code \in TableCodes : CloseTableRefused(code)
    \/ \E code \in TableCodes : CloseTableAccepted(code)

SpecCloseTable == Init /\ [][NextCloseTable]_vars

-----------------------------------------------------------------------------
(* Properties *)

OrderOf(k) == kots[k].restaurant_order
StatusesOf(ks, o) == {ks[k].status : k \in KotsOf(ks, o)}
LineStatuses(kot) == {kot.items[j].status : j \in DOMAIN kot.items}

(* The precedence of section 4.5, on a non-empty set of ticket statuses *)
PrecedenceStatus(S) ==
    CASE S = {"Ready"} -> "Ready"
      [] S /= {"Ready"} /\ "Preparing" \in S -> "Preparing"
      [] S = {"New"} -> "Confirmed"
      [] OTHER -> "Preparing"

(* C1: whenever the reconciler runs last in a request (update_order_status on
   a ticket, place_order, add_items_to_order creating tickets) for an order
   that has tickets and whose status is not Served/Completed/Cancelled/Paid,
   the order's status afterwards is the first match of: all tickets Ready ->
   Ready; any Preparing -> Preparing; all New -> Confirmed; otherwise
   Preparing. *)
ReconcilerPrecedence ==
    [][/\ \A k \in DOMAIN kots :
            (/\ orders[OrderOf(k)].status \notin {"Served", "Completed", "Cancelled", "Paid"}
             /\ orders'[OrderOf(k)].status /= PrecedenceStatus(StatusesOf(kots', OrderOf(k))))
            => ~\E st \in KotStatusInputs \cup ItemStatusInputs :
                  \E i \in 0..(Len(kots[k].items) + 1) : UpdateOrderStatusFound(k, st, i)
       /\ \A o \in DOMAIN orders' :
            (/\ Len(kots') > Len(kots)
             /\ \E k \in DOMAIN kots' \ DOMAIN kots : kots'[k].restaurant_order = o
             /\ o \in DOMAIN orders =>
                   orders[o].status \notin {"Served", "Completed", "Cancelled", "Paid"})
            => orders'[o].status = PrecedenceStatus(StatusesOf(kots', o))
      ]_vars

(* C1 witness: an order with one ticket Ready and one ticket New is Preparing *)
MixedReadyNewIsPreparing ==
    \E o \in DOMAIN orders :
        /\ StatusesOf(kots, o) = {"Ready", "New"}
        /\ orders[o].status = "Preparing"

(* C2: an update_order_status call (ticket-level or line-level) on a ticket
   of an order that is Served, Completed, Cancelled or Paid leaves the
   order's status unchanged. *)
StickyOrderKept ==
    [][\A k \in DOMAIN kots :
          (/\ orders[OrderOf(k)].status \in {"Served", "Completed", "Cancelled", "Paid"}
           /\ orders'[OrderOf(k)].status /= orders[OrderOf(k)].status)
          => ~\E st \in KotStatusInputs \cup ItemStatusInputs :
                \E i \in 0..(Len(kots[k].items) + 1) : UpdateOrderStatus(k, st, i)
      ]_vars

(* C2 witness: cancel_order cancels every ticket of the order, so a ticket
   that is Preparing under a Cancelled order was updated after the
   cancellation, and the order is Cancelled still. *)
StrayUpdateOnStickyOrder ==
    \E k \in DOMAIN kots :
        /\ orders[OrderOf(k)].status = "Cancelled"
        /\ kots[k].status = "Preparing"

(* C3: a line-level update_order_status(ticket, Ready, line) leaves the ticket
   Ready when every line of the ticket is then Ready, and leaves the ticket's
   status as it was while some line is not Ready. *)
PromotionOnlyWhenAllReady ==
    [][\A k \in DOMAIN kots :
          \A i \in DOMAIN kots[k].items :
             UpdateOrderStatusFound(k, "Ready", i)
             => /\ kots'[k].items[i].status = "Ready"
                /\ IF LineStatuses(kots'[k]) = {"Ready"}
                   THEN kots'[k].status = "Ready"
                   ELSE kots'[k].status = kots[k].status
      ]_vars

(* C3 witness: 2 of 3 lines Ready by line-level updates, the ticket still New *)
TwoOfThreeReady ==
    \E k \in DOMAIN kots :
        /\ Len(kots[k].items) = 3
        /\ Cardinality({j \in DOMAIN kots[k].items : kots[k].items[j].status = "Ready"}) = 2
        /\ kots[k].status = "New"

(* C4: in every reachable state a ticket is Ready exactly when all of its
   lines are Ready, and Served exactly when all of its lines are Served. *)
TicketConsistentWithLines ==
    \A k \in DOMAIN kots :
        /\ kots[k].status = "Ready" <=> LineStatuses(kots[k]) = {"Ready"}
        /\ kots[k].status = "Served" <=> LineStatuses(kots[k]) = {"Served"}

DefaultedStation(line) ==
    IF line.kitchen_station = "" THEN "Main Kitchen" ELSE line.kitchen_station

(* C5: place_order creates exactly one ticket per distinct station among the
   order's lines, a line without station counting under "Main Kitchen"; every
   order line is exactly one ticket line, in the ticket of its station; every
   created ticket is New with all lines Pending. *)
FanOutAtPlacement ==
    [][Len(orders') > Len(orders) =>
        LET o == Len(orders')
            lines == orders'[o].items
            new == DOMAIN kots' \ DOMAIN kots
            stations == {DefaultedStation(lines[i]) : i \in DOMAIN lines}
            Holders(i) == {k \in new : \E j \in DOMAIN kots'[k].items :
                                          kots'[k].items[j].order_item = <<i>>}
        IN  /\ \A k \in new : /\ kots'[k].restaurant_order = o
                              /\ kots'[k].status = "New"
                              /\ LineStatuses(kots'[k]) = {"Pending"}
            /\ Cardinality(new) = Cardinality(stations)
            /\ {kots'[k].kitchen_station : k \in new} = stations
            /\ \A i \in DOMAIN lines :
                  /\ Cardinality(Holders(i)) = 1
                  /\ \A k \in Holders(i) :
                        /\ kots'[k].kitchen_station = DefaultedStation(lines[i])
                        /\ Cardinality({j \in DOMAIN kots'[k].items :
                               kots'[k].items[j].order_item = <<i>>}) = 1
                  /\ lines[i].kitchen_station = Menu[lines[i].menu_item].kitchen_station
            /\ SumSeq([n \in 1..Len(kots') |->
                          IF n \in new THEN Len(kots'[n].items) ELSE 0]) = Len(lines)
      ]_vars

(* C5 witness: a placed order with a Grill line and a line without station
   has a Grill ticket and a Main Kitchen ticket, both New *)
PlacedOnTwoStations ==
    \E o \in DOMAIN orders :
        /\ {orders[o].items[i].kitchen_station : i \in DOMAIN orders[o].items} = {"Grill", ""}
        /\ {kots[k].kitchen_station : k \in KotsOf(kots, o)} = {"Grill", "Main Kitchen"}
        /\ StatusesOf(kots, o) = {"New"}
        /\ \A k \in KotsOf(kots, o) : ~kots[k].is_additional

(* the requests with an entry that validation refuses *)
RefusedEntry(e) ==
    /\ e.qty >= 1
    /\ \/ e.item \notin MenuNames
       \/ ~Menu[e.item].enabled
       \/ ~Menu[e.item].in_stock
BadRequests == {r \in Requests : \E n \in DOMAIN r : RefusedEntry(r[n])}

(* C6: a place_order or add_items_to_order request with an entry that fails
   validation is rejected, and no order, order line, ticket, table or table
   session is created or modified. *)
AllOrNothingValidation ==
    [][(\/ response'.success
        \/ <<orders, kots, sessions, tables>>' /= <<orders, kots, sessions, tables>>)
       => ~\E items \in BadRequests :
             \/ \E code \in TableCodes : PlaceOrder(code, items)
             \/ \E o \in DOMAIN orders : AddItemsToOrder(o, items, OrderingMaxLines)
      ]_vars

(* C6 witness: a request was refused for an entry out of stock while an
   order with tickets exists *)
RefusedWithOrderPresent ==
    /\ ~response.success
    /\ response.message = "Item out of stock"
    /\ orders /= <<>>
    /\ kots /= <<>>

(* C7: appending lines to an order that has tickets creates new tickets marked
   additional, one per distinct station among the appended lines, holding
   exactly the appended lines of that station, and leaves every ticket that
   existed before unchanged. *)
AppendCreatesAdditionalTickets ==
    [][\A o \in DOMAIN orders :
          (/\ o \in DOMAIN orders'
           /\ Len(orders'[o].items) > Len(orders[o].items)
           /\ KotsOf(kots, o) /= {})
          => LET added == SubSeq(orders'[o].items, Len(orders[o].items) + 1,
                                 Len(orders'[o].items))
                 new == DOMAIN kots' \ DOMAIN kots
                 stations == {DefaultedStation(added[i]) : i \in DOMAIN added}
                 OfStation(st) == SelectSeq(added, LAMBDA l : DefaultedStation(l) = st)
             IN  /\ \A k \in DOMAIN kots : k \in DOMAIN kots' /\ kots'[k] = kots[k]
                 /\ \A k \in new : /\ kots'[k].restaurant_order = o
                                   /\ kots'[k].is_additional
                                   /\ kots'[k].status = "New"
                                   /\ LineStatuses(kots'[k]) = {"Pending"}
                                   /\ [j \in DOMAIN kots'[k].items |->
                                          kots'[k].items[j].menu_item]
                                      = [j \in DOMAIN OfStation(kots'[k].kitchen_station) |->
                                          OfStation(kots'[k].kitchen_station)[j].menu_item]
                 /\ Cardinality(new) = Cardinality(stations)
                 /\ {kots'[k].kitchen_station : k \in new} = stations
      ]_vars

(* C7 witness: an order whose first ticket is Ready and which has two
   additional tickets, New, on two stations *)
AppendedOnTwoStations ==
    \E o \in DOMAIN orders :
        /\ \E k \in KotsOf(kots, o) : ~kots[k].is_additional /\ kots[k].status = "Ready"
        /\ Cardinality({kots[k].kitchen_station :
               k \in {n \in KotsOf(kots, o) : kots[n].is_additional /\ kots[n].status = "New"}}) = 2

(* C8: bump_order on an existing ticket answers success and leaves the ticket
   Served, every line of it Served and its served time stamped with the
   current time, whatever the statuses were before. *)
BumpServesTicketAndLines ==
    [][\A k \in DOMAIN kots :
          BumpOrder(k) => /\ response'.success
                          /\ kots'[k].status = "Served"
                          /\ LineStatuses(kots'[k]) = {"Served"}
                          /\ kots'[k].served_at = <<now>>
      ]_vars

(* C8 witness: a ticket of three lines bumped at a later time: Served, all
   lines Served, served time stamped *)
ThreeLinesBumped ==
    \E k \in DOMAIN kots :
        /\ Len(kots[k].items) = 3
        /\ kots[k].status = "Served"
        /\ LineStatuses(kots[k]) = {"Served"}
        /\ kots[k].served_at = <<MaxClock>>

(* C9: bumping a ticket that is already Served succeeds and changes nothing:
   the ticket's status, its lines' statuses, its served timestamp and the
   status of its order are what they were before the second bump. *)
BumpIsIdempotent ==
    [][\A k \in DOMAIN kots :
          (kots[k].status = "Served" /\ BumpOrder(k))
          => /\ response'.success
             /\ kots'[k].status = kots[k].status
             /\ [j \in DOMAIN kots'[k].items |-> kots'[k].items[j].status]
                = [j \in DOMAIN kots[k].items |-> kots[k].items[j].status]
             /\ kots'[k].served_at = kots[k].served_at
             /\ orders'[OrderOf(k)].status = orders[OrderOf(k)].status
      ]_vars

(* C10: recall_order on a Served ticket leaves the ticket Ready, its served
   timestamp cleared and every line of it Ready. *)
RecallRestoresReady ==
    [][\A k \in DOMAIN kots :
          (kots[k].status = "Served" /\ RecallOrder(k))
          => /\ response'.success
             /\ kots'[k].status = "Ready"
             /\ kots'[k].served_at = <<>>
             /\ LineStatuses(kots'[k]) = {"Ready"}
      ]_vars

(* C10 witness: a recalled ticket: Ready with Ready lines and no served time,
   while the order's lines still carry the Served of the bump *)
RecalledAfterBump ==
    \E k \in DOMAIN kots :
        /\ kots[k].status = "Ready"
        /\ kots[k].served_at = <<>>
        /\ LineStatuses(kots[k]) = {"Ready"}
        /\ \A i \in DOMAIN orders[OrderOf(k)].items :
              orders[OrderOf(k)].items[i].status = "Served"

(* C11: a ticket-level update_order_status(ticket, Preparing) leaves the
   ticket Preparing; every line that was Pending is Preparing with its start
   time stamped with the current time; every other line keeps its status. *)
TicketPreparingStartsPendingLines ==
    [][\A k \in DOMAIN kots :
          UpdateOrderStatusFound(k, "Preparing", 0)
          => /\ kots'[k].status = "Preparing"
             /\ \A j \in DOMAIN kots[k].items :
                   IF kots[k].items[j].status = "Pending"
                   THEN /\ kots'[k].items[j].status = "Preparing"
                        /\ kots'[k].items[j].started_at = <<now>>
                   ELSE kots'[k].items[j].status = kots[k].items[j].status
      ]_vars

(* C11 witness: a ticket set to Preparing at the later time after one of its
   three lines had been made Ready: that line is Ready still and was never
   started, the two others are Preparing and started at that time *)
StartedAroundReadyLine ==
    \E k \in DOMAIN kots :
        /\ kots[k].status = "Preparing"
        /\ Len(kots[k].items) = 3
        /\ kots[k].items[1].status = "Ready" /\ kots[k].items[1].started_at = <<>>
        /\ \A j \in {2, 3} : /\ kots[k].items[j].status = "Preparing"
                             /\ kots[k].items[j].started_at = <<MaxClock>>

(* C12: a ticket-level update_order_status(ticket, Ready) leaves the ticket
   Ready and all of its lines Ready; every line that was not Ready has its
   completion time stamped with the current time. *)
TicketReadyCompletesLines ==
    [][\A k \in DOMAIN kots :
          UpdateOrderStatusFound(k, "Ready", 0)
          => /\ kots'[k].status = "Ready"
             /\ \A j \in DOMAIN kots[k].items :
                   /\ kots'[k].items[j].status = "Ready"
                   /\ kots[k].items[j].status /= "Ready"
                         => kots'[k].items[j].completed_at = <<now>>
      ]_vars

(* C12 witness: a ticket made Ready at the later time whose first line was
   Ready before: all three lines Ready, the first completed earlier *)
CompletedAroundReadyLine ==
    \E k \in DOMAIN kots :
        /\ kots[k].status = "Ready"
        /\ Len(kots[k].items) = 3
        /\ kots[k].items[1].status = "Ready" /\ kots[k].items[1].completed_at = <<1>>
        /\ \A j \in {2, 3} : /\ kots[k].items[j].status = "Ready"
                             /\ kots[k].items[j].completed_at = <<MaxClock>>
                             /\ kots[k].items[j].started_at = <<>>

(* the position of a status on the chain of section 3; Completed, which the
   chain does not name, is placed after Paid *)
StatusRank(st) ==
    CASE st = "New" -> 1
      [] st = "Confirmed" -> 2
      [] st = "Preparing" -> 3
      [] st = "Ready" -> 4
      [] st = "Served" -> 5
      [] st = "Paid" -> 6
      [] OTHER -> 7

(* C13: in every step an order's status stays, moves forward along New,
   Confirmed, Preparing, Ready, Served, Paid, or becomes Cancelled from a
   status other than Paid; it never moves back, and never leaves Cancelled. *)
OrderStatusOnlyForward ==
    [][\A o \in DOMAIN orders :
          \/ orders'[o].status = orders[o].status
          \/ /\ orders'[o].status = "Cancelled"
             /\ orders[o].status /= "Paid"
          \/ /\ orders[o].status /= "Cancelled"
             /\ orders'[o].status /= "Cancelled"
             /\ StatusRank(orders'[o].status) > StatusRank(orders[o].status)
      ]_vars

(* C14: once an order is Paid or Cancelled, no update_order_status,
   bump_order or recall_order on one of its tickets and no payment reversal
   changes the order's status. *)
TerminalStatusPermanent ==
    [][\A o \in DOMAIN orders :
          (/\ orders[o].status \in {"Paid", "Cancelled"}
           /\ orders'[o].status /= orders[o].status)
          => /\ ~RevertRestaurantOrderPayment(o, orders[o].grand_total)
             /\ \A k \in KotsOf(kots, o) :
                   /\ ~BumpOrder(k)
                   /\ ~RecallOrder(k)
                   /\ ~\E st \in KotStatusInputs \cup ItemStatusInputs :
                         \E i \in 0..Len(kots[k].items) : UpdateOrderStatus(k, st, i)
      ]_vars

-----------------------------------------------------------------------------
(* C20: add_items_to_order on an order whose status is Paid, Cancelled or
   Completed returns an error result and leaves the order's lines, totals
   and status, and every ticket, unchanged. *)
AppendToClosedOrderRefused ==
    [][\A o \in DOMAIN orders :
          (/\ orders[o].status \in {"Paid", "Cancelled", "Completed"}
           /\ AddItemsToOrder(o, <<Juice>>, MaxLines))
          => (/\ ~response'.success
              /\ orders' = orders
              /\ kots' = kots)]_vars

(* an append was refused on a Paid order *)
AppendRefusedOnPaidOrder ==
    /\ ~response.success
    /\ response.message = "Cannot modify this order"
    /\ \E o \in DOMAIN orders : orders[o].status = "Paid"

-----------------------------------------------------------------------------
(* C19: add_items_to_order on an open order with an empty list, or with a
   list whose entries all have a quantity below 1, succeeds, creates no
   ticket and leaves the order's lines, totals and status unchanged. *)
EmptyRequests == {items \in Requests : \A i \in DOMAIN items : items[i].qty < 1}

EmptyAppendChangesNothing ==
    [][\A o \in DOMAIN orders, items \in EmptyRequests :
          (/\ orders[o].status \notin {"Paid", "Cancelled", "Completed"}
           /\ AddItemsToOrder(o, items, OrderingMaxLines))
          => (/\ response'.success
              /\ kots' = kots
              /\ orders' = orders)]_vars

(* an append went through on an order that has no additional ticket *)
EmptyAppendAccepted ==
    /\ response.message = "Items added successfully"
    /\ orders /= <<>>
    /\ kots /= <<>>
    /\ \A k \in DOMAIN kots : ~kots[k].is_additional

-----------------------------------------------------------------------------
(* C18: every order place_order persists has service_charge = subtotal *
   service_charge_percent / 100, tax = (subtotal + service_charge) *
   vat_percent / 100, and a stored grand_total of subtotal + service_charge
   + tax (no order carries a tip or a discount); a subtotal of 100.00 gives
   10.00, 16.50 and 126.50.  Amounts are in hundredths. *)
PlacedTotalsExact ==
    [][Len(orders') > Len(orders) =>
          LET order == orders'[Len(orders')]
              service_charge == (order.subtotal * Settings.service_charge_percent) \div 100
              tax == ((order.subtotal + service_charge) * Settings.vat_percent) \div 100
          IN  /\ order.service_charge = service_charge
              /\ order.vat = tax
              /\ order.grand_total = order.subtotal + service_charge + tax
              /\ order.subtotal = 10000 =>
                    /\ order.service_charge = 1000
                    /\ order.vat = 1650
                    /\ order.grand_total = 12650]_vars

-----------------------------------------------------------------------------
(* C15: placing an order of 2 lines on 2 stations creates exactly 2 tickets
   and leaves the order Confirmed; while the tickets are started and their
   lines marked Ready, the order's status changes into Ready only in a step
   that leaves every ticket of the order Ready, it is Ready once the lines
   of both tickets are Ready, and it does not leave Ready, so that it
   changes into Ready exactly once. *)
AllLinesReady(o) ==
    \A k \in KotsOf(kots, o) : LineStatuses(kots[k]) = {"Ready"}

EndToEndReadyOnce ==
    /\ [][Len(orders') > Len(orders) =>
             LET o == Len(orders')
             IN  /\ Cardinality(KotsOf(kots', o)) = 2
                 /\ Len(kots') = Len(kots) + 2
                 /\ orders'[o].status = "Confirmed"]_vars
    /\ [][\A o \in DOMAIN orders :
             (orders[o].status /= "Ready" /\ orders'[o].status = "Ready")
             => StatusesOf(kots', o) = {"Ready"}]_vars
    /\ [][\A o \in DOMAIN orders :
             orders[o].status = "Ready" => orders'[o].status = "Ready"]_vars
    /\ [](\A o \in DOMAIN orders : AllLinesReady(o) => orders[o].status = "Ready")

(* both tickets were started at time 1 and both lines marked Ready at time
   2, and the order is Ready *)
BothStartedThenBothReady ==
    \E o \in DOMAIN orders :
        /\ orders[o].status = "Ready"
        /\ Cardinality(KotsOf(kots, o)) = 2
        /\ \A k \in KotsOf(kots, o) :
              /\ kots[k].status = "Ready"
              /\ \A j \in DOMAIN kots[k].items :
                    /\ kots[k].items[j].started_at = Stamp(1)
                    /\ kots[k].items[j].completed_at = Stamp(2)

-----------------------------------------------------------------------------
(* C16: when two update_order_status requests on the same ticket, each
   marking a different line Ready, have both completed, both lines are
   Ready and the ticket is Ready. *)
ConcurrentLineUpdatesKept ==
    \A w1, w2 \in Workers :
        (/\ w1 /= w2
         /\ requests[w1].pc = "done" /\ requests[w2].pc = "done"
         /\ requests[w1].kot_id = requests[w2].kot_id
         /\ requests[w1].item_id /= NoItem /\ requests[w2].item_id /= NoItem
         /\ requests[w1].item_id /= requests[w2].item_id)
        => LET kot == kots[requests[w1].kot_id]
           IN  /\ kot.items[requests[w1].item_id].status = "Ready"
               /\ kot.items[requests[w2].item_id].status = "Ready"
               /\ kot.status = "Ready"

-----------------------------------------------------------------------------
(* C17: when status updates to two different tickets of the same order have
   both completed, the order's status is the reconciler precedence applied
   to the final statuses of all its tickets. *)
ConcurrentReconcileByPrecedence ==
    \A w1, w2 \in Workers :
        (/\ w1 /= w2
         /\ requests[w1].pc = "done" /\ requests[w2].pc = "done"
         /\ requests[w1].kot_id /= requests[w2].kot_id
         /\ OrderOf(requests[w1].kot_id) = OrderOf(requests[w2].kot_id))
        => LET o == OrderOf(requests[w1].kot_id)
           IN  orders[o].status = PrecedenceStatus(StatusesOf(kots, o))

-----------------------------------------------------------------------------
(* C21: update_order_status, bump_order, recall_order and set_priority
   called with a ticket id that does not exist each return a failure result
   and change no ticket, no ticket line and no order. *)
MissingTicketRefused ==
    [][\A k \in 0..(Len(kots) + 1) :
          (/\ k \notin DOMAIN kots
           /\ \/ \E st \in {"Ready"}, i \in 0..1 : UpdateOrderStatus(k, st, i)
              \/ BumpOrder(k)
              \/ RecallOrder(k)
              \/ \E priority \in PriorityInputs : SetPriority(k, priority))
          => (/\ ~response'.success
              /\ kots' = kots
              /\ orders' = orders)]_vars

(* a request naming a missing ticket was refused while a ticket was on the
   display *)
MissingTicketRefusedOnce ==
    /\ ~response.success
    /\ response.message = "not found"
    /\ kots /= <<>>

-----------------------------------------------------------------------------
(* C22: update_order_status called on an existing ticket with a line id
   that is not a line of that ticket returns a failure result and changes
   neither the ticket, nor any of its lines, nor the order. *)
UnknownLineRefused ==
    [][\A k \in DOMAIN kots :
          LET i == Len(kots[k].items) + 1
          IN  (\E st \in ItemStatusInputs : UpdateOrderStatus(k, st, i))
              => (/\ ~response'.success
                  /\ kots' = kots
                  /\ orders' = orders)]_vars

-----------------------------------------------------------------------------
(* C23: validate_order_items yields, for each requested entry of quantity
   >= 1, exactly one outcome, in the order of the request: an error if the
   item does not exist, an error if it is disabled, an error if the
   availability check fails, otherwise one validated line with unit price =
   base price + the modifiers' prices and line total = unit price *
   quantity; entries of quantity < 1 yield neither. *)
EntryOutcome(e) ==
    CASE e.qty < 1 -> "none"
      [] e.qty >= 1 /\ e.item \notin MenuNames -> "Item not found"
      [] e.qty >= 1 /\ e.item \in MenuNames /\ ~Menu[e.item].enabled -> "Item not available"
      [] e.qty >= 1 /\ e.item \in MenuNames /\ Menu[e.item].enabled
           /\ ~Menu[e.item].in_stock -> "Item out of stock"
      [] OTHER -> "line"

ValidationOneOutcomePerEntry ==
    LET accepted == SelectSeq(validation.items, LAMBDA e : EntryOutcome(e) = "line")
        refused == SelectSeq(validation.items,
                             LAMBDA e : EntryOutcome(e) \notin {"line", "none"})
    IN  /\ Len(validation.validated) = Len(accepted)
        /\ \A j \in DOMAIN accepted :
              LET e == accepted[j]
                  line == validation.validated[j]
                  unit_price == Menu[e.item].price
                      + SumSeq([n \in DOMAIN e.modifiers |-> e.modifiers[n].additional_price])
              IN  /\ line.menu_item = e.item
                  /\ line.qty = e.qty
                  /\ line.rate = unit_price
                  /\ line.total = unit_price * e.qty
        /\ Len(validation.errors) = Len(refused)
        /\ \A j \in DOMAIN refused : validation.errors[j] = EntryOutcome(refused[j])

(* two Burgers with a priced modifier validated next to a disabled item *)
ValidatedWithModifiers ==
    /\ Len(validation.items) = 2
    /\ Len(validation.validated) = 1
    /\ validation.validated[1].rate = 10500
    /\ validation.validated[1].total = 21000
    /\ validation.errors = <<"Item not available">>

-----------------------------------------------------------------------------
(* C24: an entry of quantity >= 1 for an enabled menu item whose
   is_available flag marks it unavailable is refused by validation, so no
   order ever has a line for such an item. *)
NoLineForUnavailableItem ==
    \A o \in DOMAIN orders : \A i \in DOMAIN orders[o].items :
        Menu[orders[o].items[i].menu_item].is_available

-----------------------------------------------------------------------------
(* C25: update_order_status publishes the waiter-scoped order_ready event
   in a call if and only if the ticket's status was not Ready before the
   call and is Ready after it. *)
OrderReadyOnlyOnTransition ==
    [][\A k \in DOMAIN kots :
          (\E st \in ItemStatusInputs, i \in 0..(Len(kots[k].items) + 1) :
              UpdateOrderStatus(k, st, i))
          => (("restaurant:order_ready" \in published')
              <=> (kots[k].status /= "Ready" /\ kots'[k].status = "Ready"))]_vars

-----------------------------------------------------------------------------
(* C26: a failure of notification delivery never fails the triggering
   mutation: when publishing a realtime event fails during
   update_order_status(ticket, Ready) or recall_order, the ticket is Ready
   afterwards and the call reports success. *)
PublishFailureSwallowed ==
    [][\A k \in DOMAIN kots :
          (UpdateOrderStatusPublishFails(k, "Ready", NoItem) \/ RecallOrderPublishFails(k))
          => (/\ response'.success
              /\ kots'[k].status = "Ready")]_vars

-----------------------------------------------------------------------------
(* C27: in every reachable state every order's grand_total is >= 0. *)
GrandTotalNeverNegative ==
    \A o \in DOMAIN orders : orders[o].grand_total >= 0

-----------------------------------------------------------------------------
(* C28: an order placed while the service-charge percentage and the tax
   percentage are both unset has service_charge = 0 and tax = 0, and its
   grand_total equals its subtotal. *)
UnsetPercentagesAreZero ==
    [][(/\ Len(orders') > Len(orders)
        /\ settings.service_charge_percent = 0
        /\ settings.vat_percent = 0)
       => LET order == orders'[Len(orders')]
          IN  /\ order.service_charge = 0
              /\ order.vat = 0
              /\ order.grand_total = order.subtotal]_vars

-----------------------------------------------------------------------------
(* C29: after every place_order and every add_items_to_order that went
   through, the order's subtotal is the sum of the line totals of all its
   lines, and its stored grand_total is subtotal + service_charge + tax -
   discount. *)
TotalsRecomputedFromLines ==
    [][response'.message \in {"Order placed successfully", "Items added successfully"}
       => \A o \in DOMAIN orders' :
             (o \notin DOMAIN orders \/ orders'[o] /= orders[o])
             => LET order == orders'[o]
                IN  /\ order.subtotal
                         = SumSeq([i \in DOMAIN order.items |-> order.items[i].amount])
                    /\ order.grand_total
                         = order.subtotal + order.service_charge + order.vat
                           - order.discount_amount]_vars

-----------------------------------------------------------------------------
(* C30: in every reachable state every ticket line references one order line
   of its ticket's order, and every order line is referenced by exactly one
   ticket line. *)
TicketLinesMatchOrderLines ==
    /\ \A k \in DOMAIN kots : \A j \in DOMAIN kots[k].items :
          \E i \in DOMAIN orders[kots[k].restaurant_order].items :
             kots[k].items[j].order_item = Ref(i)
    /\ \A o \in DOMAIN orders : \A i \in DOMAIN orders[o].items :
          Cardinality({kj \in {<<k, j>> : k \in DOMAIN kots, j \in 1..MaxLines + MaxReqItems} :
                         /\ kj[2] \in DOMAIN kots[kj[1]].items
                         /\ kots[kj[1]].restaurant_order = o
                         /\ kots[kj[1]].items[kj[2]].order_item = Ref(i)}) = 1

-----------------------------------------------------------------------------
(* C31: a ticket that is Cancelled keeps that status under every later
   update_order_status, bump_order and recall_order, and a ticket that is
   Served is never moved to Cancelled. *)
CancelledTicketIsTerminal ==
    [][\A k \in DOMAIN kots :
          /\ kots[k].status = "Cancelled" => kots'[k].status = "Cancelled"
          /\ kots[k].status = "Served" => kots'[k].status /= "Cancelled"]_vars

-----------------------------------------------------------------------------
(* C32: in every state reached by place_order, add_items_to_order,
   update_order_status, bump_order and recall_order calls run one after the
   other, an order that has tickets and whose status is not
   Served/Completed/Cancelled/Paid has the status the reconciler precedence
   gives for its tickets' statuses; in particular it is Ready only if all of
   its tickets are Ready. *)
OrderStatusIsReconciled ==
    \A o \in DOMAIN orders :
        (KotsOf(kots, o) /= {} /\ orders[o].status \notin StickyStatuses)
        => /\ orders[o].status = PrecedenceStatus(StatusesOf(kots, o))
           /\ orders[o].status = "Ready" => StatusesOf(kots, o) = {"Ready"}

-----------------------------------------------------------------------------
(* C33: in every reachable state an order whose status is Served has no
   ticket outside Served and Cancelled. *)
ServedOrderHasNoOpenTicket ==
    \A o \in DOMAIN orders :
        orders[o].status = "Served"
        => \A k \in KotsOf(kots, o) : kots[k].status \in {"Served", "Cancelled"}

-----------------------------------------------------------------------------
(* C34: whenever a ticket line is Ready or Served, the order line it was
   created from has the same status, and get_order_status reports progress
   100 whenever the order's status is Ready or Served. *)
OrderLinesFollowKitchen ==
    /\ \A k \in DOMAIN kots : \A j \in DOMAIN kots[k].items :
          \A i \in DOMAIN orders[OrderOf(k)].items :
             (/\ kots[k].items[j].order_item = Ref(i)
              /\ kots[k].items[j].status \in {"Ready", "Served"})
             => orders[OrderOf(k)].items[i].status = kots[k].items[j].status
    /\ \A o \in DOMAIN orders :
          orders[o].status \in {"Ready", "Served"} => Progress(orders[o]) = 100

-----------------------------------------------------------------------------
(* C35: every order a successful place_order creates has at least one line
   and at least one ticket, and a request whose entries all have a quantity
   below 1 creates no order. *)
PlacedOrderHasLinesAndTickets ==
    [][/\ Len(orders') > Len(orders)
          => \A o \in DOMAIN orders' \ DOMAIN orders :
                /\ Len(orders'[o].items) >= 1
                /\ KotsOf(kots', o) /= {}
       /\ \A code \in TableCodes, items \in EmptyRequests :
             ~PlaceOrderAccepted(code, items)]_vars

-----------------------------------------------------------------------------
(* C36: after cancel_order the order is Cancelled and every ticket of it is
   Cancelled, tickets of appended lines included, and no ticket of a
   Cancelled order is New, Preparing or Ready. *)
CancelledOrderHasNoOpenTicket ==
    [][/\ \A o \in DOMAIN orders :
             CancelOrder(o)
             => /\ orders'[o].status = "Cancelled"
                /\ \A k \in KotsOf(kots', o) : kots'[k].status = "Cancelled"
       /\ \A o \in DOMAIN orders' :
             orders'[o].status = "Cancelled"
             => \A k \in KotsOf(kots', o) :
                   kots'[k].status \notin {"New", "Preparing", "Ready"}]_vars

-----------------------------------------------------------------------------
(* C37: an order that is placed and never cancelled, whose tickets the
   kitchen staff all bump in the end, with nothing appended or recalled,
   eventually has the status Served. *)
BumpedOrderEventuallyServed ==
    \A o \in 1..MaxOrders :
        (o \in DOMAIN orders) ~> (o \in DOMAIN orders /\ orders[o].status = "Served")

(* C37 witness: an order of two tickets is Served once both were bumped *)
BothTicketsBumpedOrderServed ==
    \E o \in DOMAIN orders :
        /\ orders[o].status = "Served"
        /\ Cardinality(KotsOf(kots, o)) = 2
        /\ \A k \in KotsOf(kots, o) : kots[k].status = "Served"

-----------------------------------------------------------------------------
(* C38: a table has at most one open session (Active or Ordering) at any
   time, whatever the interleaving of the place_order requests for the table
   and of seat_guests calls. *)
AtMostOneOpenSession ==
    \A t \in TableCodes :
        Cardinality({s \in DOMAIN sessions :
                        /\ sessions[s].status \in OpenSessionStatuses
                        /\ t \in {sessions[s].table, sessions[s].restaurant_table}}) <= 1

-----------------------------------------------------------------------------
(* C39: close_table succeeds only when the table has no current order or its
   current order is Paid or Cancelled; when it refuses, the table, its
   session and its order are unchanged; when it succeeds, the table is
   Available with no current order and no current session, and the session
   it held is Closed. *)
CloseTableOnlyWhenSettled ==
    [][\A code \in TableCodes :
          CloseTable(code)
          => LET table == tables[code]
                 settled == IF table.current_order = NoRef THEN TRUE
                            ELSE orders[table.current_order[1]].status
                                    \in {"Paid", "Cancelled"}
             IN  /\ response'.success => settled
                 /\ ~response'.success => UNCHANGED <<tables, sessions, orders>>
                 /\ response'.success
                    => /\ tables'[code].status = "Available"
                       /\ tables'[code].current_order = NoRef
                       /\ tables'[code].current_session = NoRef
                       /\ table.current_session /= NoRef
                          => sessions'[table.current_session[1]].status = "Closed"]_vars

(* C39 witness: close_table has refused a table whose current order is not
   paid, and the table still holds its session and its order *)
CloseRefusedOnUnpaidOrder ==
    \E code \in TableCodes :
        /\ response = Reply(FALSE, "Please complete payment before closing table")
        /\ tables[code].current_order /= NoRef
        /\ orders[tables[code].current_order[1]].status \notin {"Paid", "Cancelled"}
        /\ tables[code].current_session /= NoRef
        /\ sessions[tables[code].current_session[1]].status \in OpenSessionStatuses

====
